---- MODULE Spec2Model ----
(***************************************************************************)
(* Model of the multi-agent coding pipeline: the LangGraph stage graph of  *)
(* agents/graph.py (orchestrator -> code_writer -> code_reviewer ->        *)
(* {code_writer | test_writer} -> END), the four stage functions, the      *)
(* routing function route_after_review, what the two callers of a run      *)
(* receive, and call_mcp_tool of agents/mcp_client.py.                     *)
(*                                                                         *)
(* Texts produced by the inference service and by the tool server are      *)
(* abstracted to small tokens; the control data that the graph acts on     *)
(* (review_json.severity, iterations, the messages log) is kept exact.     *)
(***************************************************************************)
EXTENDS Naturals, Integers, Sequences, FiniteSets, TLC

VARIABLES
    state,      \* the AgentState dict threaded through the graph (keys may be absent)
    node,       \* the node the engine runs next; "END" after test_writer; "ERROR" once a stage raised
    invoked,    \* names of the stages invoked so far, in order
    decision,   \* label last returned by the conditional edge's predicate ("pending" before any)
    loopBacks,  \* number of times the edge code_reviewer -> code_writer was followed
    deviated,   \* TRUE once a label differing from route_after_review's was followed
    severities, \* review_json's severity as each completed review left it, in order
    reviewOutput, \* the inference service's answer to the review that completed last
    entry,      \* which caller built the initial state
    lastUpdate, \* the update returned by the stage invocation that completed last
    failure,    \* the stage that raised and what it raised (NoFailure while none has)
    result,     \* what the caller of the run has received (NoResult while the run goes on)
    toolResults, \* the call_mcp_tool results the stage that returned last kept, by tool name
    toolCalls,  \* the tool requests (name, arguments) the stage that returned last issued, in order
    \* one call_mcp_tool invocation
    tool,       \* tool_name
    caller,     \* where the calling thread is: "idle", "joining", "checking", "returned"
    worker,     \* the worker thread: "unstarted", "running", "finished" (alive iff running)
    outcome,    \* how _async_call_tool ended in the worker ("none" while it has not)
    cell,       \* the dict result = {"value": ..., "error": ...} of this invocation
    clock,      \* seconds since thread.start()
    doneAt,     \* clock value at which the worker thread ended (-1 while it has not)
    ret,        \* what call_mcp_tool handed to its caller, and when
    conn,       \* the tool server process this invocation's worker is connected to (0: none yet)
    response,   \* what this invocation's worker got from _async_call_tool (NoResponse while nothing)
    servers,    \* tool server processes started so far
    past,       \* the earlier call_mcp_tool invocations of the run, oldest first
    sandbox,    \* the docker run of an execute_code request on the tool server
    \* a second run going on in the same process
    other       \* the graph variables of the run whose thread is not the one taking steps

graphVars == <<state, node, invoked, decision, loopBacks, deviated, severities, reviewOutput, entry,
               lastUpdate, failure, result, toolResults, toolCalls>>

bridgeVars == <<tool, caller, worker, outcome, cell, clock, doneAt, ret,
                conn, response, servers, past, sandbox>>

vars == <<state, node, invoked, decision, loopBacks, deviated, severities, reviewOutput, entry,
          lastUpdate, failure, result, toolResults, toolCalls,
          tool, caller, worker, outcome, cell, clock, doneAt, ret,
          conn, response, servers, past, sandbox, other>>

(***************************************************************************)
(* Bounds of the model.                                                    *)
(***************************************************************************)
\* stage invocations explored in one run (a run of the graph as built needs 8)
MaxSteps == 10
\* stage invocations up to which a review under an arbitrary predicate is explored
MaxStepsAny == 9
\* longest issues list a review carries
MaxIssues == 1
\* largest iterations value fed to the routing function on its own
MaxIterIn == 6
\* seconds past the deadline of a tool call that are explored
MaxOverrun == 2
\* call_mcp_tool invocations of one run that are explored
MaxCalls == 2

(***************************************************************************)
(* AgentState and the reducer of its messages channel.                     *)
(***************************************************************************)
AgentState ==
    {"task", "code", "review", "review_json", "tests", "test_results",
     "iterations", "messages"}

Has(d, k) == k \in DOMAIN d

\* dict.get(k, default)
Get(d, k, default) == IF Has(d, k) THEN d[k] ELSE default

\* {**d, k1: v1, ...}: the keys of upd override those of d
Spread(d, upd) ==
    [k \in (DOMAIN d) \cup (DOMAIN upd) |-> IF Has(upd, k) THEN upd[k] ELSE d[k]]

\* the merge with messages declared as a plain list: the update's value replaces the log
MergeUpdate_overwrite(s, upd) ==
    [k \in (DOMAIN s) \cup (DOMAIN upd) |-> IF Has(upd, k) THEN upd[k] ELSE s[k]]

\* the merge with the operands of the reducer exchanged
MergeUpdate_prepend(s, upd) ==
    [k \in (DOMAIN s) \cup (DOMAIN upd) |->
        IF ~Has(upd, k) THEN s[k]
        ELSE IF k = "messages" THEN upd[k] \o Get(s, "messages", <<>>)
        ELSE upd[k]]

\* the merge keeping the code channel's value once it is a non-empty text
MergeUpdate_keep_first(s, upd) ==
    [k \in (DOMAIN s) \cup (DOMAIN upd) |->
        IF ~Has(upd, k) THEN s[k]
        ELSE IF k = "messages" THEN Get(s, "messages", <<>>) \o upd[k]
        ELSE IF k = "code" /\ Has(s, k) /\ s[k] # 0 THEN s[k]
        ELSE upd[k]]

\* the merge that takes the update for the new state: keys the update lacks are lost
MergeUpdate_replace_state(s, upd) ==
    [k \in DOMAIN upd |->
        IF k = "messages" THEN Get(s, "messages", <<>>) \o upd[k]
        ELSE upd[k]]

\* The engine's merge of a node's update: messages is Annotated[list, operator.add],
\* every other channel is overwritten by the update's value when present.
MergeUpdate(s, upd) ==
    [k \in (DOMAIN s) \cup (DOMAIN upd) |->
        IF ~Has(upd, k) THEN s[k]
        ELSE IF k = "messages" THEN Get(s, "messages", <<>>) \o upd[k]
        ELSE upd[k]]

(***************************************************************************)
(* str.upper() on the severity tokens of the model.                        *)
(***************************************************************************)
JsonNull == "json:null"

SeverityTags == {"none", "minor", "critical"}

\* values the reviewer's JSON may carry under "severity"
SeverityValues == SeverityTags \cup {"CRITICAL", JsonNull}

IsStr(v) == v # JsonNull

Upper(v) ==
    CASE v = "none"     -> "NONE"
      [] v = "minor"    -> "MINOR"
      [] v = "critical" -> "CRITICAL"
      [] v = "CRITICAL" -> "CRITICAL"
      [] OTHER          -> v

(***************************************************************************)
(* Routing function.                                                       *)
(***************************************************************************)
Labels == {"revise", "approve"}

\* the literal 3 of route_after_review
maxRevisions == 3

\* variants of the routing rule, each one slip away from the code
route_after_review_unbounded(s) ==
    LET review_json == Get(s, "review_json", <<>>)
        severity    == Get(review_json, "severity", "none")
    IN  IF severity = "critical" THEN "revise" ELSE "approve"

route_after_review_inclusive(s) ==
    LET review_json == Get(s, "review_json", <<>>)
        severity    == Get(review_json, "severity", "none")
        iterations  == Get(s, "iterations", 0)
    IN  IF severity = "critical" /\ iterations <= maxRevisions
        THEN "revise"
        ELSE "approve"

route_after_review_early(s) ==
    LET review_json == Get(s, "review_json", <<>>)
        severity    == Get(review_json, "severity", "none")
        iterations  == Get(s, "iterations", 0)
    IN  IF severity = "critical" /\ iterations < maxRevisions - 1
        THEN "revise"
        ELSE "approve"

route_after_review_anycase(s) ==
    LET review_json == Get(s, "review_json", <<>>)
        severity    == Get(review_json, "severity", "none")
        iterations  == Get(s, "iterations", 0)
    IN  IF Upper(severity) = "CRITICAL" /\ iterations < maxRevisions
        THEN "revise"
        ELSE "approve"

route_after_review(s) ==
    LET review_json == Get(s, "review_json", <<>>)
        severity    == Get(review_json, "severity", "none")
        iterations  == Get(s, "iterations", 0)
    IN  IF severity = "critical" /\ iterations < maxRevisions
        THEN "revise"
        ELSE "approve"

(***************************************************************************)
(* The graph built by build_graph.                                         *)
(***************************************************************************)
Stages == {"orchestrator", "code_writer", "code_reviewer", "test_writer"}

entry_point == "orchestrator"

\* the edges with code_writer wired straight to test_writer
StaticEdge_skip_review(n) ==
    CASE n = "orchestrator" -> "code_writer"
      [] n = "code_writer"  -> "test_writer"
      [] n = "test_writer"  -> "END"

\* g.add_edge(a, b)
StaticEdge(n) ==
    CASE n = "orchestrator" -> "code_writer"
      [] n = "code_writer"  -> "code_reviewer"
      [] n = "test_writer"  -> "END"

\* the branch table with its two targets exchanged
ConditionalEdge_swapped(label) ==
    CASE label = "revise"  -> "test_writer"
      [] label = "approve" -> "code_writer"

\* g.add_conditional_edges("code_reviewer", route_after_review, {...})
ConditionalEdge(label) ==
    CASE label = "revise"  -> "code_writer"
      [] label = "approve" -> "test_writer"

(***************************************************************************)
(* Values of the text fields.  A generated code text is identified by the  *)
(* writer invocation that produced it (0 is the empty string).             *)
(***************************************************************************)
NoCode == 0
EmptyDict == <<>>
EmptyText == [text |-> "empty"]
NoReview == [kind |-> "empty"]

(***************************************************************************)
(* orchestrator_agent                                                      *)
(***************************************************************************)
orchestrator_agent(s) ==
    Spread(s,
        [task     |-> "enriched task",
         messages |-> << [role    |-> "orchestrator",
                          content |-> [text |-> "Task analysed and structured into a specification"]] >>])

(***************************************************************************)
(* code_writer_agent: code is the inference service's answer.  The results *)
(* of its two tool calls (query_docs, write_file) are not part of the      *)
(* update it returns.                                                      *)
(***************************************************************************)
\* the writer returning the iteration count it read
code_writer_agent_no_increment(s, code) ==
    LET iterations == Get(s, "iterations", 0)
        action     == IF iterations > 0 THEN "revised" ELSE "written"
    IN  [code       |-> code,
         iterations |-> iterations,
         messages   |-> << [role    |-> "code_writer",
                            content |-> [text      |-> "Code",
                                         action    |-> action,
                                         iteration |-> iterations + 1,
                                         rag       |-> "RAG context retrieved successfully"]] >>]

code_writer_agent(s, code) ==
    LET iterations == Get(s, "iterations", 0)
        action     == IF iterations > 0 THEN "revised" ELSE "written"
    IN  [code       |-> code,
         iterations |-> iterations + 1,
         messages   |-> << [role    |-> "code_writer",
                            content |-> [text      |-> "Code",
                                         action    |-> action,
                                         iteration |-> iterations + 1,
                                         rag       |-> "RAG context retrieved successfully"]] >>]

(***************************************************************************)
(* code_reviewer_agent                                                     *)
(***************************************************************************)
\* severity tags of the entries of a review's issues list
Issues == {"critical"}

SeqsUpTo(S, n) == UNION {[1..k -> S] : k \in 0..n}

\* JSON objects the reviewer's answer may contain: severity and issues may be missing
ReviewObjects ==
    LET sevPart == {EmptyDict} \cup {[severity |-> v] : v \in SeverityValues}
        issPart == {EmptyDict} \cup {[issues |-> i] : i \in SeqsUpTo(Issues, MaxIssues)}
    IN  {Spread(Spread(a, b), [summary |-> "one sentence"]) : a \in sevPart, b \in issPart}

\* Answers of the inference service to the review prompt: a text with a JSON
\* object in it, or a text with none (possibly empty).
ReviewerAnswers ==
    {[json |-> TRUE, obj |-> o] : o \in ReviewObjects}
        \cup {[json |-> FALSE, text |-> t] : t \in {"", "prose"}}

\* no review has completed
NoAnswer == [json |-> FALSE, text |-> "no answer"]

\* the fallback verdict flagging the output as critical
_parse_review_json_flagging(text) ==
    IF text.json
    THEN text.obj
    ELSE [issues   |-> <<>>,
          severity |-> "critical",
          summary  |-> IF text.text # "" THEN "first 300 characters"
                       ELSE "Review could not be parsed"]

\* lines 20-33: the JSON object found in the text, or the fallback verdict
_parse_review_json(text) ==
    IF text.json
    THEN text.obj
    ELSE [issues   |-> <<>>,
          severity |-> "none",
          summary  |-> IF text.text # "" THEN "first 300 characters"
                       ELSE "Review could not be parsed"]

\* .upper() is called on the severity before anything else: a severity that
\* is not a string raises AttributeError
_format_review_raises(review_json) ==
    ~IsStr(Get(review_json, "severity", "none"))

_format_review(review_json) ==
    LET issues   == Get(review_json, "issues", <<>>)
        severity == Upper(Get(review_json, "severity", "none"))
        summary  == Get(review_json, "summary", "")
    IN  IF Len(issues) = 0
        THEN [kind |-> "No issues found", summary |-> summary]
        ELSE [kind |-> "Severity", severity |-> severity,
              lines |-> [i \in 1..Len(issues) |-> Upper(issues[i])],
              summary |-> summary]

code_reviewer_raises(s, text) ==
    _format_review_raises(_parse_review_json(text))

code_reviewer_agent(s, text) ==
    LET review_json == _parse_review_json(text)
        review_text == _format_review(review_json)
        severity    == Get(review_json, "severity", "none")
    IN  Spread(s,
            [review      |-> review_text,
             review_json |-> review_json,
             messages    |-> << [role    |-> "code_reviewer",
                                 content |-> [text     |-> "Review done",
                                              severity |-> Upper(severity),
                                              issues   |-> Len(Get(review_json, "issues", <<>>))]] >>])

(***************************************************************************)
(* What the caller of a run receives.  run_pipeline (agents/graph.py)      *)
(* returns graph.invoke's result and lets an exception through; the /run   *)
(* handler (api/main.py) builds a RunResponse, or an HTTPException whose   *)
(* detail is "Pipeline error: " followed by str(e).                        *)
(***************************************************************************)
NoResult == [kind |-> "pending"]

NoFailure == [stage |-> "none", cause |-> "none"]

\* what a stage can raise: the inference client's error, or the AttributeError
\* of .upper() on a severity that is not a string
InferenceError == "APIConnectionError: Connection error."
AttributeError == "AttributeError: object has no attribute 'upper'"

RunResponse(s) ==
    [kind         |-> "RunResponse",
     code         |-> Get(s, "code", NoCode),
     review       |-> Get(s, "review", NoReview),
     test_results |-> Get(s, "test_results", EmptyText),
     iterations   |-> Get(s, "iterations", 0),
     messages     |-> Get(s, "messages", <<>>)]

\* the exception handler of the /run handler without str(e)
HTTPException_no_cause(e) ==
    [kind |-> "HTTPException", status_code |-> 500,
     detail |-> [text |-> "Pipeline error: "]]

\* raise HTTPException(status_code=500, detail=f"Pipeline error: {str(e)}")
HTTPException(e) ==
    [kind |-> "HTTPException", status_code |-> 500,
     detail |-> [text |-> "Pipeline error: ", cause |-> e]]

\* the final state reaches the caller
OnReturn(ent, s) ==
    IF ent = "api" THEN RunResponse(s) ELSE [kind |-> "state", state |-> s]

\* an exception of graph.invoke reaches the caller
OnRaise(ent, e) ==
    IF ent = "api" THEN HTTPException(e)
    ELSE [kind |-> "exception", detail |-> [cause |-> e]]

\* a retry policy on the nodes: the stage that raised is run again
AfterRaise_retry(n) == n

\* graph.invoke stops at the first stage that raises
AfterRaise(n) == "ERROR"

(***************************************************************************)
(* call_mcp_tool at rest (no invocation under way).                        *)
(***************************************************************************)
None == "<None>"

NoReturn == [kind |-> "pending"]

NoResponse == [kind |-> "none"]

\* no docker run has been started
NoSandbox == [status |-> "none"]

\* no second run
NoRun == [run |-> "none"]

BridgeIdle ==
    /\ tool = "none"
    /\ caller = "idle"
    /\ worker = "unstarted"
    /\ outcome = "none"
    /\ cell = [value |-> None, error |-> None]
    /\ clock = 0
    /\ doneAt = -1
    /\ ret = NoReturn
    /\ conn = 0
    /\ response = NoResponse
    /\ servers = 0
    /\ past = <<>>
    /\ sandbox = NoSandbox

(***************************************************************************)
(* The strings call_mcp_tool hands back (agents/mcp_client.py) and the     *)
(* pure parts of the call: what _async_call_tool returns for a response,   *)
(* when the join returns, and the answer built after the join.             *)
(***************************************************************************)
\* thread.join(timeout=60)
JoinTimeout == 60

ToolNames == {"query_docs", "write_file", "execute_code", "no_such_tool"}

\* texts of the content items of a tool server's response
ToolTexts == {"tool result text", ""}

\* result.content of session.call_tool: no item, one item, or more than one
Contents ==
    {<<>>} \cup {<<t>> : t \in ToolTexts} \cup {<<"tool result text", "second item">>}

\* the text of the item that comes last
_async_call_tool_last_item(content) ==
    IF Len(content) > 0 THEN content[Len(content)] ELSE ""

\* lines 17-20: if result.content: return result.content[0].text; return ""
_async_call_tool(content) ==
    IF Len(content) > 0 THEN content[1] ELSE ""

\* one session kept open and used by every call
stdio_client_shared(n) == 1

\* lines 10-15: stdio_client(server_params) starts a tool server process of its
\* own (python mcp_server/server.py) and connects to it; n servers were started before
stdio_client(n) == n + 1

\* str(e) of an exception raised in the worker
ErrorMessages == {"Connection closed", ""}

\* the strings call_mcp_tool builds; a plain text is Str(text)
Str(text) == [text |-> text]

TimeoutString(tool_name) ==
    [text |-> "Error: MCP tool timed out after 60 seconds", tool |-> tool_name]

ErrorString(tool_name, error) ==
    [text |-> "Error calling MCP tool", tool |-> tool_name, error |-> error]

IsString(v) == Has(v, "text")

\* truth value of a str-or-None in an if or an or
Truthy(v) == v # None /\ v # ""

IsAlive(w) == w # "finished"

\* join without its timeout argument
join_returns_no_timeout(w, t) == ~IsAlive(w)

\* thread.join(timeout=60) returns once the thread has ended or 60 seconds have passed
join_returns(w, t) == ~IsAlive(w) \/ t >= JoinTimeout

\* the worker's error raised again in the caller
call_mcp_tool_result_reraise(tool_name, alive, c) ==
    IF alive
    THEN [kind |-> "return", value |-> TimeoutString(tool_name)]
    ELSE IF Truthy(c.error)
    THEN [kind |-> "raise", value |-> ErrorString(tool_name, c.error)]
    ELSE [kind |-> "return",
          value |-> IF Truthy(c.value) THEN Str(c.value) ELSE Str("")]

\* lines 46-52: what call_mcp_tool hands back after the join
call_mcp_tool_result(tool_name, alive, c) ==
    IF alive
    THEN [kind |-> "return", value |-> TimeoutString(tool_name)]
    ELSE IF Truthy(c.error)
    THEN [kind |-> "return", value |-> ErrorString(tool_name, c.error)]
    ELSE [kind |-> "return",
          value |-> IF Truthy(c.value) THEN Str(c.value) ELSE Str("")]

\* one dict at module level: every worker writes the dict of the latest invocation
result_of_shared(i, latest) == latest

\* line 28: result = {...} is local to the invocation and run_in_thread closes
\* over it: the worker of invocation i writes the dict of invocation i
result_of(i, latest) == i

(***************************************************************************)
(* Initial states: graph.invoke as called by run_pipeline (agents/graph.py)*)
(* and by the /run handler (api/main.py).                                  *)
(***************************************************************************)
run_pipeline_input ==
    [task |-> "raw task", iterations |-> 0, messages |-> <<>>]

api_run_input ==
    [task |-> "raw task", code |-> NoCode, review |-> NoReview, review_json |-> EmptyDict,
     tests |-> EmptyText, test_results |-> EmptyText, iterations |-> 0, messages |-> <<>>]

Init ==
    /\ entry \in {"run_pipeline", "api"}
    /\ state = IF entry = "run_pipeline" THEN run_pipeline_input ELSE api_run_input
    /\ node = entry_point
    /\ invoked = <<>>
    /\ decision = "pending"
    /\ severities = <<>>
    /\ reviewOutput = NoAnswer
    /\ loopBacks = 0
    /\ deviated = FALSE
    /\ lastUpdate = EmptyDict
    /\ failure = NoFailure
    /\ result = NoResult
    /\ toolResults = EmptyDict
    /\ toolCalls = <<>>
    /\ other = NoRun
    /\ BridgeIdle

(***************************************************************************)
(* call_mcp_tool as a stage sees it: one call, and everything it can hand  *)
(* back.  The text of a response depends on the tool called.               *)
(***************************************************************************)
\* texts the tool server answers execute_code with (mcp_server/server.py)
ExecTexts ==
    {"Exit code: 0",            \* sandbox ran, return code 0: "Exit code: 0 ... OUTPUT: ... ERRORS: ..."
     "Exit code: 1",            \* sandbox ran, non-zero return code, same layout
     "Error: 30-second limit"}  \* the server killed the sandbox at its own limit

\* result.content of a response to tool_name
ContentsOf(tool_name) ==
    IF tool_name = "execute_code"
    THEN {<<>>} \cup {<<t>> : t \in ExecTexts}
    ELSE Contents

\* the result dict as the worker can have left it when the caller looks at it
ResultCells(tool_name) ==
    {[value |-> None, error |-> None]}
        \cup {[value |-> _async_call_tool(content), error |-> None] :
                 content \in ContentsOf(tool_name)}
        \cup {[value |-> None, error |-> m] : m \in ErrorMessages}

\* call_mcp_tool(tool_name, arguments): what one call can hand back
call_mcp_tool(tool_name) ==
    {call_mcp_tool_result(tool_name, alive, c) :
        alive \in BOOLEAN, c \in ResultCells(tool_name)}

\* whether a call whose result the stage drops raised: the outcomes of such a
\* call are told apart no further
Raises(results) == {r.kind = "raise" : r \in results}

\* what a stage raises when call_mcp_tool raises in it
ToolError == "Exception: Error calling MCP tool"

(***************************************************************************)
(* The tool requests of the stages: call_mcp_tool(tool_name, arguments) as *)
(* code_writer_agent and test_writer_agent call it.                        *)
(***************************************************************************)
\* code_writer.py lines 25 and 84-87
code_writer_requests(s, code) ==
    << [tool |-> "query_docs",
        arguments |-> [query |-> Get(s, "task", ""), n_results |-> 3]],
       [tool |-> "write_file",
        arguments |-> [filename |-> "generated_code.py", content |-> code]] >>

\* test_writer.py lines 39-40: code = state["code"] (a writer has always set it)
code_under_test(s) == Get(s, "code", NoCode)

\* combined = f"import pytest\n\n{code}\n\n# -- Tests --\n\n{tests}"
combined(code, tests) == [code |-> code, tests |-> tests]

\* test_writer.py lines 77-80 and 85
test_writer_requests(s, tests) ==
    LET code == code_under_test(s)
    IN  << [tool |-> "write_file",
            arguments |-> [path    |-> "workspace/test_generated.py",
                           content |-> combined(code, tests)]],
           [tool |-> "execute_code",
            arguments |-> [code |-> combined(code, tests)]] >>

(***************************************************************************)
(* test_writer_agent.  exec_output is what call_mcp_tool handed back for   *)
(* execute_code; a string is tested part by part (its text, the tool name  *)
(* and the error message put into it).                                     *)
(***************************************************************************)
Parts(str) == {str[k] : k \in DOMAIN str}

\* needle in part.lower(), for the texts of the model
InLower(needle, part) ==
    CASE needle = "exit code: 0" -> part = "Exit code: 0"
      [] needle = "error" ->
            part \in {"Exit code: 0", "Exit code: 1", "Error: 30-second limit",
                      "Error: MCP tool timed out after 60 seconds",
                      "Error calling MCP tool"}
      [] OTHER -> FALSE

\* "exit code: 0" in exec_output.lower()
HasExitCode0(out) == \E part \in Parts(out) : InLower("exit code: 0", part)

\* the test for "failed" alone
HasErrorOrFailed_failed_only(out) == \E part \in Parts(out) : InLower("failed", part)

\* "error" in exec_output.lower() or "failed" in exec_output.lower()
HasErrorOrFailed(out) ==
    \/ \E part \in Parts(out) : InLower("error", part)
    \/ \E part \in Parts(out) : InLower("failed", part)

\* the tags with the test for "error" or "failed" made first
test_writer_agent_error_first(s, tests, exec) ==
    LET exec_output == exec.value
        test_results ==
            IF exec.kind = "raise"
            THEN [tag |-> "Could not execute tests", text |-> exec_output]
            ELSE IF HasErrorOrFailed(exec_output)
            THEN [tag |-> "TESTS FAILED", text |-> exec_output]
            ELSE IF HasExitCode0(exec_output)
            THEN [tag |-> "TESTS PASSED", text |-> exec_output]
            ELSE [tag |-> "", text |-> exec_output]
    IN  Spread(s,
            [tests        |-> tests,
             test_results |-> test_results,
             messages     |-> << [role    |-> "test_writer",
                                  content |-> [text |-> "Tests generated and executed in Docker sandbox"]] >>])

\* exec is the outcome of call_mcp_tool("execute_code", ...): a string, or an
\* exception that the try around the call turns into a text
test_writer_agent(s, tests, exec) ==
    LET exec_output == exec.value
        test_results ==
            IF exec.kind = "raise"
            THEN [tag |-> "Could not execute tests", text |-> exec_output]
            ELSE IF HasExitCode0(exec_output)
            THEN [tag |-> "TESTS PASSED", text |-> exec_output]
            ELSE IF HasErrorOrFailed(exec_output)
            THEN [tag |-> "TESTS FAILED", text |-> exec_output]
            ELSE [tag |-> "", text |-> exec_output]
    IN  Spread(s,
            [tests        |-> tests,
             test_results |-> test_results,
             messages     |-> << [role    |-> "test_writer",
                                  content |-> [text |-> "Tests generated and executed in Docker sandbox"]] >>])

(***************************************************************************)
(* The engine: invoke the current node, merge its update, follow the edge. *)
(***************************************************************************)
Count(seq, x) == Cardinality({i \in 1..Len(seq) : seq[i] = x})

CanInvoke(n) == node = n /\ Len(invoked) < MaxSteps

RunNode(n, upd, next) ==
    /\ state'   = MergeUpdate(state, upd)
    /\ invoked' = Append(invoked, n)
    /\ node'    = next
    /\ lastUpdate' = upd
    /\ result'  = IF next = "END" THEN OnReturn(entry, MergeUpdate(state, upd)) ELSE result

\* stage n raises e: graph.invoke raises it to the caller
Raise(n, e) ==
    /\ invoked' = Append(invoked, n)
    /\ node'    = AfterRaise(n)
    /\ failure' = [stage |-> n, cause |-> e]
    /\ result'  = OnRaise(entry, e)
    /\ UNCHANGED <<state, lastUpdate, decision, loopBacks, deviated, severities, reviewOutput, entry,
                   toolResults, toolCalls,
                   bridgeVars, other>>

Orchestrator ==
    /\ CanInvoke("orchestrator")
    /\ RunNode("orchestrator", orchestrator_agent(state), StaticEdge("orchestrator"))
    /\ toolResults' = EmptyDict
    /\ toolCalls' = <<>>
    /\ UNCHANGED <<decision, loopBacks, deviated, severities, reviewOutput, entry, failure, bridgeVars, other>>

\* code_writer_agent with its two tool calls (query_docs before the inference
\* call, write_file after it), neither of them inside a try; rag_context is
\* kept for the prompt, what write_file returns is dropped
CodeWriter ==
    /\ CanInvoke("code_writer")
    /\ \E rag_context \in call_mcp_tool("query_docs") :
       \E save_raised \in Raises(call_mcp_tool("write_file")) :
          IF rag_context.kind = "raise" \/ save_raised
          THEN Raise("code_writer", ToolError)
          ELSE /\ LET code == Count(invoked, "code_writer") + 1
                  IN  /\ RunNode("code_writer", code_writer_agent(state, code),
                                 StaticEdge("code_writer"))
                      /\ toolCalls' = code_writer_requests(state, code)
               /\ toolResults' = [query_docs |-> rag_context.value]
               /\ UNCHANGED <<decision, loopBacks, deviated, severities, reviewOutput, entry, failure,
                              bridgeVars, other>>

\* the state the conditional edge's predicate is evaluated on
AfterReview(text) == MergeUpdate(state, code_reviewer_agent(state, text))

\* The reviewer returns and the conditional edge is resolved with the label
\* its predicate returned for the merged state.
Reviewed(text, label) ==
    /\ CanInvoke("code_reviewer")
    /\ ~code_reviewer_raises(state, text)
    /\ RunNode("code_reviewer", code_reviewer_agent(state, text), ConditionalEdge(label))
    /\ decision'  = label
    /\ severities' = Append(severities, Get(_parse_review_json(text), "severity", "absent"))
    /\ reviewOutput' = text
    /\ loopBacks' = IF ConditionalEdge(label) = "code_writer"
                    THEN loopBacks + 1 ELSE loopBacks
    /\ deviated'  = (deviated \/ label # route_after_review(AfterReview(text)))
    /\ toolResults' = EmptyDict
    /\ toolCalls' = <<>>
    /\ UNCHANGED <<entry, failure, bridgeVars, other>>

CodeReviewer ==
    \E text \in ReviewerAnswers : Reviewed(text, route_after_review(AfterReview(text)))

\* _format_review raises inside the reviewer: graph.invoke raises
CodeReviewerCrash ==
    /\ CanInvoke("code_reviewer")
    /\ \E text \in ReviewerAnswers : code_reviewer_raises(state, text)
    /\ Raise("code_reviewer", AttributeError)

\* test_writer_agent with its two tool calls: write_file outside the try,
\* its result dropped, execute_code inside it, its result kept as exec_output
TestWriter ==
    /\ CanInvoke("test_writer")
    /\ \E save_raised \in Raises(call_mcp_tool("write_file")) :
       \E exec \in call_mcp_tool("execute_code") :
          IF save_raised
          THEN Raise("test_writer", ToolError)
          ELSE /\ RunNode("test_writer",
                          test_writer_agent(state, [text |-> "tests"], exec),
                          StaticEdge("test_writer"))
               /\ toolResults' = [execute_code |-> exec.value]
               /\ toolCalls' = test_writer_requests(state, [text |-> "tests"])
               /\ UNCHANGED <<decision, loopBacks, deviated, severities, reviewOutput, entry, failure,
                              bridgeVars, other>>

\* The inference call of the current stage raises: graph.invoke raises
InferenceFails ==
    /\ node \in Stages
    /\ Len(invoked) < MaxSteps
    /\ Raise(node, InferenceError)

Next ==
    \/ Orchestrator
    \/ CodeWriter
    \/ CodeReviewer
    \/ CodeReviewerCrash
    \/ TestWriter
    \/ InferenceFails

Spec == Init /\ [][Next]_vars

\* every stage invocation eventually returns or raises
FairSpec == Spec /\ WF_vars(Next)

(***************************************************************************)
(* The two entry points of a run, from the call with a task to             *)
(* graph.invoke: the /run handler (api/main.py) and run_pipeline           *)
(* (agents/graph.py).  state holds the task passed until the input of      *)
(* graph.invoke is built.                                                  *)
(***************************************************************************)
\* task strings a caller may pass
Tasks == {"raw task", "", "   "}

\* str.strip() on the task strings of the model
strip(t) == IF t \in {"", "   "} THEN "" ELSE t

\* raise HTTPException(status_code=400, detail="Task cannot be empty")
EmptyTaskError ==
    [kind |-> "HTTPException", status_code |-> 400,
     detail |-> [text |-> "Task cannot be empty"]]

InitEntry ==
    /\ entry \in {"run_pipeline", "api"}
    /\ state \in {[task |-> t] : t \in Tasks}
    /\ node = "START"
    /\ invoked = <<>>
    /\ decision = "pending"
    /\ severities = <<>>
    /\ reviewOutput = NoAnswer
    /\ loopBacks = 0
    /\ deviated = FALSE
    /\ lastUpdate = EmptyDict
    /\ failure = NoFailure
    /\ result = NoResult
    /\ toolResults = EmptyDict
    /\ toolCalls = <<>>
    /\ other = NoRun
    /\ BridgeIdle

\* the /run handler up to graph.invoke: an empty task is answered with
\* status 400 before the graph is built
api_run_pipeline ==
    /\ node = "START"
    /\ entry = "api"
    /\ IF strip(state["task"]) = ""
       THEN /\ node' = "REJECTED"
            /\ result' = EmptyTaskError
            /\ state' = state
       ELSE /\ node' = entry_point
            /\ result' = result
            /\ state' = Spread(api_run_input, [task |-> state["task"]])
    /\ UNCHANGED <<invoked, decision, loopBacks, deviated, severities, reviewOutput, entry,
                   lastUpdate, failure, toolResults, toolCalls,
                   bridgeVars, other>>

\* run_pipeline(task): graph.invoke({"task": task, "iterations": 0, "messages": []})
run_pipeline ==
    /\ node = "START"
    /\ entry = "run_pipeline"
    /\ node' = entry_point
    /\ state' = Spread(run_pipeline_input, [task |-> state["task"]])
    /\ UNCHANGED <<invoked, decision, loopBacks, deviated, severities, reviewOutput, entry,
                   lastUpdate, failure, result, toolResults, toolCalls,
                   bridgeVars, other>>

NextEntry ==
    \/ api_run_pipeline
    \/ run_pipeline
    \/ Next

SpecEntry == InitEntry /\ [][NextEntry]_vars

(***************************************************************************)
(* The same graph with another predicate on the conditional edge: the      *)
(* engine follows whatever label the predicate returns.                    *)
(***************************************************************************)
\* a run under an arbitrary predicate is followed for MaxStepsAny stage invocations
WithinAny == Len(invoked) < MaxStepsAny

\* the reviewer's answers told apart by their severity alone: the label
\* followed does not depend on the answer
ReviewerAnswersAny ==
    {text \in ReviewerAnswers : text.json => ~Has(text.obj, "issues")}

CodeReviewerAnyPredicate ==
    /\ WithinAny
    /\ \E text \in ReviewerAnswersAny : \E label \in Labels : Reviewed(text, label)

NextAnyPredicate ==
    \/ WithinAny /\ Orchestrator
    \/ WithinAny /\ CodeWriter
    \/ CodeReviewerAnyPredicate
    \/ WithinAny /\ CodeReviewerCrash
    \/ WithinAny /\ TestWriter
    \/ WithinAny /\ InferenceFails

SpecAnyPredicate == Init /\ [][NextAnyPredicate]_vars

(***************************************************************************)
(* Two runs in one process, each a graph.invoke call on a thread of its    *)
(* own (two run_pipeline calls on the module's graph, two requests of the  *)
(* /run handler).  The graph variables are those of the run whose thread   *)
(* takes the next step; other holds the run whose thread is waiting.       *)
(***************************************************************************)
\* the graph variables of the run taking steps, as run id
ThisRun(id) ==
    [id |-> id, state |-> state, node |-> node, invoked |-> invoked,
     decision |-> decision, loopBacks |-> loopBacks, deviated |-> deviated,
     severities |-> severities, reviewOutput |-> reviewOutput, entry |-> entry,
     lastUpdate |-> lastUpdate, failure |-> failure, result |-> result,
     toolResults |-> toolResults, toolCalls |-> toolCalls]

\* the run whose thread takes the steps
Running == 3 - other.id

\* the input dict each call builds for itself
invoke_input(ent) == IF ent = "run_pipeline" THEN run_pipeline_input ELSE api_run_input

InitRuns ==
    /\ entry \in {"run_pipeline", "api"}
    /\ state = invoke_input(entry)
    /\ node = entry_point
    /\ invoked = <<>>
    /\ decision = "pending"
    /\ severities = <<>>
    /\ reviewOutput = NoAnswer
    /\ loopBacks = 0
    /\ deviated = FALSE
    /\ lastUpdate = EmptyDict
    /\ failure = NoFailure
    /\ result = NoResult
    /\ toolResults = EmptyDict
    /\ toolCalls = <<>>
    /\ \E ent \in {"run_pipeline", "api"} :
          other = [id |-> 2, state |-> invoke_input(ent), node |-> entry_point,
                   invoked |-> <<>>, decision |-> "pending", loopBacks |-> 0,
                   deviated |-> FALSE, severities |-> <<>>, reviewOutput |-> NoAnswer,
                   entry |-> ent, lastUpdate |-> EmptyDict, failure |-> NoFailure,
                   result |-> NoResult, toolResults |-> EmptyDict, toolCalls |-> <<>>]
    /\ BridgeIdle

\* the two runs working on one state dict
Switch_shared_state ==
    /\ other' = ThisRun(Running)
    /\ state' = state
    /\ node' = other.node
    /\ invoked' = other.invoked
    /\ decision' = other.decision
    /\ loopBacks' = other.loopBacks
    /\ deviated' = other.deviated
    /\ severities' = other.severities
    /\ reviewOutput' = other.reviewOutput
    /\ entry' = other.entry
    /\ lastUpdate' = other.lastUpdate
    /\ failure' = other.failure
    /\ result' = other.result
    /\ toolResults' = other.toolResults
    /\ toolCalls' = other.toolCalls
    /\ UNCHANGED bridgeVars

\* the other thread goes on: its graph.invoke works on the state it was
\* called with and has built since
Switch ==
    /\ other' = ThisRun(Running)
    /\ state' = other.state
    /\ node' = other.node
    /\ invoked' = other.invoked
    /\ decision' = other.decision
    /\ loopBacks' = other.loopBacks
    /\ deviated' = other.deviated
    /\ severities' = other.severities
    /\ reviewOutput' = other.reviewOutput
    /\ entry' = other.entry
    /\ lastUpdate' = other.lastUpdate
    /\ failure' = other.failure
    /\ result' = other.result
    /\ toolResults' = other.toolResults
    /\ toolCalls' = other.toolCalls
    /\ UNCHANGED bridgeVars

\* with two runs, the answers of the tool server and of the reviewer's
\* inference call are told apart no further than this
PlainRun ==
    /\ toolResults \in {EmptyDict, [query_docs |-> Str("tool result text")],
                         [execute_code |-> Str("Exit code: 0")]}
    /\ reviewOutput \in {NoAnswer} \cup ReviewerAnswersAny

NextRuns ==
    \/ Switch
    \/ Orchestrator /\ PlainRun'
    \/ CodeWriter /\ PlainRun'
    \/ CodeReviewer /\ PlainRun'
    \/ CodeReviewerCrash /\ PlainRun'
    \/ TestWriter /\ PlainRun'
    \/ InferenceFails /\ PlainRun'

SpecRuns == InitRuns /\ [][NextRuns]_vars

(***************************************************************************)
(* route_after_review on its own, applied to every state of a bounded set  *)
(* in which review_json, its severity key and iterations may be absent.    *)
(***************************************************************************)
RouteInputs ==
    LET rjPart == {EmptyDict}
                    \cup {[review_json |-> EmptyDict]}
                    \cup {[review_json |-> [severity |-> v]] : v \in SeverityValues}
        itPart == {EmptyDict} \cup {[iterations |-> i] : i \in 0..MaxIterIn}
    IN  {Spread(a, b) : a \in rjPart, b \in itPart}

InitRoute ==
    /\ state \in RouteInputs
    /\ node = "code_reviewer"
    /\ invoked = <<>>
    /\ decision = "pending"
    /\ loopBacks = 0
    /\ deviated = FALSE
    /\ severities = <<>>
    /\ reviewOutput = NoAnswer
    /\ entry = "route_after_review"
    /\ lastUpdate = EmptyDict
    /\ failure = NoFailure
    /\ result = NoResult
    /\ toolResults = EmptyDict
    /\ toolCalls = <<>>
    /\ other = NoRun
    /\ BridgeIdle

EvalRoute ==
    /\ decision = "pending"
    /\ decision' = route_after_review(state)
    /\ node' = ConditionalEdge(route_after_review(state))
    /\ UNCHANGED <<state, invoked, loopBacks, deviated, severities, reviewOutput, entry,
                   lastUpdate, failure, result, toolResults, toolCalls,
                   bridgeVars, other>>

SpecRoute == InitRoute /\ [][EvalRoute]_vars

(***************************************************************************)
(* The tool server's call_tool (mcp_server/server.py) on its own, applied  *)
(* to the requests of the stages and to every request of a bounded set.    *)
(* toolCalls holds the one request, response what the handler did with it. *)
(***************************************************************************)
\* the names call_tool has a branch for
ServerTools ==
    {"read_file", "write_file", "execute_code", "search_github", "list_directory"}

\* the text of the else branch
UnknownTool == "Error: Unknown tool"

\* return [types.TextContent(type="text", text=t)]
TextContent(t) == [kind |-> "content", content |-> <<t>>]

\* arguments[k] with k missing
KeyError(k) == [kind |-> "raise", error |-> "KeyError", key |-> k]

\* texts of the except branches of execute_code other than the time limit
ExecErrorTexts == {"Error: Docker is not running", "Error executing code"}

\* call_tool(name, arguments): everything the handler can do with a request
call_tool(name, arguments) ==
    CASE name = "read_file" ->
            IF ~Has(arguments, "path") THEN {KeyError("path")}
            ELSE {TextContent(t) : t \in {"Contents of", "Error: File does not exist",
                                          "Error reading"}}
      [] name = "write_file" ->
            IF ~Has(arguments, "path") THEN {KeyError("path")}
            ELSE IF ~Has(arguments, "content") THEN {KeyError("content")}
            ELSE {TextContent(t) : t \in {"Successfully wrote", "Error writing to"}}
      [] name = "execute_code" ->
            IF ~Has(arguments, "code") THEN {KeyError("code")}
            ELSE {TextContent(t) : t \in ExecTexts \cup ExecErrorTexts}
      [] name = "search_github" ->
            IF ~Has(arguments, "query") THEN {KeyError("query")}
            ELSE {TextContent(t) : t \in {"GitHub API rate limit hit", "No GitHub results found",
                                          "GitHub results for", "Error: GitHub search timed out",
                                          "Error searching GitHub"}}
      [] name = "list_directory" ->
            {TextContent(t) : t \in {"Error: not a directory", "Directory is empty",
                                     "Contents of", "Error: Permission denied",
                                     "Error listing directory"}}
      [] OTHER -> {TextContent(UnknownTool)}

\* argument keys of the requests explored
ArgKeys == {"path", "filename", "content", "code", "query", "n_results"}

\* requests with any of the keys, under the server's names and query_docs
AnyRequests ==
    {[tool |-> n, arguments |-> [k \in K |-> "value"]] :
        n \in ServerTools \cup {"query_docs"}, K \in SUBSET ArgKeys}

\* the state of a run of the /run handler whose first review approved
SampleState ==
    LET s1 == MergeUpdate(api_run_input, orchestrator_agent(api_run_input))
        s2 == MergeUpdate(s1, code_writer_agent(s1, 1))
        review == [json |-> TRUE,
                   obj  |-> [issues |-> <<>>, severity |-> "none", summary |-> "one sentence"]]
    IN  MergeUpdate(s2, code_reviewer_agent(s2, review))

\* the requests a stage issues
StageRequests(stage) ==
    LET calls == IF stage = "code_writer" THEN code_writer_requests(SampleState, 1)
                 ELSE test_writer_requests(SampleState, [text |-> "tests"])
    IN  {<<calls[i]>> : i \in DOMAIN calls}

InitTools ==
    /\ state = EmptyDict
    /\ node = "none"
    /\ invoked = <<>>
    /\ decision = "pending"
    /\ loopBacks = 0
    /\ deviated = FALSE
    /\ severities = <<>>
    /\ reviewOutput = NoAnswer
    /\ \/ entry = "tool server" /\ toolCalls \in {<<r>> : r \in AnyRequests}
       \/ entry = "code_writer" /\ toolCalls \in StageRequests("code_writer")
       \/ entry = "test_writer" /\ toolCalls \in StageRequests("test_writer")
    /\ lastUpdate = EmptyDict
    /\ failure = NoFailure
    /\ result = NoResult
    /\ toolResults = EmptyDict
    /\ other = NoRun
    /\ BridgeIdle

\* the handler runs on the request
ServerCallTool ==
    /\ response = NoResponse
    /\ \E r \in call_tool(toolCalls[1].tool, toolCalls[1].arguments) : response' = r
    /\ UNCHANGED <<graphVars, other, tool, caller, worker, outcome, cell, clock, doneAt, ret,
                   conn, servers, past, sandbox>>

SpecTools == InitTools /\ [][ServerCallTool]_vars

(***************************************************************************)
(* call_mcp_tool (agents/mcp_client.py): the call runs in a thread of its  *)
(* own, the caller joins it for at most 60 seconds and then answers from   *)
(* thread.is_alive() and the result dict.  Time is counted in seconds      *)
(* since thread.start(); the steps of the caller take no time.             *)
(***************************************************************************)
InitBridge ==
    /\ state = EmptyDict
    /\ node = "none"
    /\ invoked = <<>>
    /\ decision = "pending"
    /\ loopBacks = 0
    /\ deviated = FALSE
    /\ severities = <<>>
    /\ reviewOutput = NoAnswer
    /\ entry = "call_mcp_tool"
    /\ lastUpdate = EmptyDict
    /\ failure = NoFailure
    /\ result = NoResult
    /\ toolResults = EmptyDict
    /\ toolCalls = <<>>
    /\ other = NoRun
    /\ tool \in ToolNames
    /\ caller = "idle"
    /\ worker = "unstarted"
    /\ outcome = "none"
    /\ cell = [value |-> None, error |-> None]
    /\ clock = 0
    /\ doneAt = -1
    /\ ret = NoReturn
    /\ conn = 0
    /\ response = NoResponse
    /\ servers = 0
    /\ past = <<>>
    /\ sandbox = NoSandbox

\* result = {...}; thread.start(); the caller enters thread.join(timeout=60)
StartThread ==
    /\ caller = "idle"
    /\ caller' = "joining"
    /\ worker' = "running"
    /\ UNCHANGED <<graphVars, other, tool, outcome, cell, clock, doneAt, ret,
                   conn, response, servers, past, sandbox>>

\* _async_call_tool: async with stdio_client(server_params) ... session.initialize()
WorkerConnects ==
    /\ worker = "running"
    /\ conn = 0
    /\ conn' = stdio_client(servers)
    /\ servers' = servers + 1
    /\ UNCHANGED <<graphVars, other, tool, caller, worker, outcome, cell, clock, doneAt, ret,
                   response, past, sandbox>>

\* run_in_thread: _async_call_tool returned; result["value"] is set
WorkerReturns ==
    /\ worker = "running"
    /\ conn # 0
    /\ \E content \in Contents :
          /\ response' = [kind |-> "content", content |-> content]
          /\ cell' = [cell EXCEPT !.value = _async_call_tool(content)]
    /\ outcome' = "value"
    /\ worker' = "closing"
    /\ UNCHANGED <<graphVars, other, tool, caller, clock, doneAt, ret, conn, servers, past, sandbox>>

\* run_in_thread: except Exception as e: result["error"] = str(e)
WorkerRaises ==
    /\ worker = "running"
    /\ \E m \in ErrorMessages :
          /\ response' = [kind |-> "exception", message |-> m]
          /\ cell' = [cell EXCEPT !.error = m]
    /\ outcome' = "exception"
    /\ worker' = "closing"
    /\ UNCHANGED <<graphVars, other, tool, caller, clock, doneAt, ret, conn, servers, past, sandbox>>

\* run_in_thread: _async_call_tool raised something that is not an Exception
\* (asyncio.CancelledError derives from BaseException): no except clause runs
WorkerCancelled ==
    /\ worker = "running"
    /\ response' = [kind |-> "base_exception"]
    /\ outcome' = "base_exception"
    /\ worker' = "closing"
    /\ UNCHANGED <<graphVars, other, tool, caller, cell, clock, doneAt, ret, conn, servers, past, sandbox>>

\* run_in_thread: finally: loop.close(), and the thread ends
WorkerEnds ==
    /\ worker = "closing"
    /\ worker' = "finished"
    /\ doneAt' = clock
    /\ UNCHANGED <<graphVars, other, tool, caller, outcome, cell, clock, ret,
                   conn, response, servers, past, sandbox>>

\* a second passes: while the caller is in join, or after it has returned
\* and the worker it left behind is still alive
Tick ==
    /\ clock < JoinTimeout + MaxOverrun
    /\ IsAlive(worker)
    /\ \/ caller = "joining" /\ ~join_returns(worker, clock)
       \/ caller = "returned"
    /\ clock' = clock + 1
    /\ UNCHANGED <<graphVars, other, tool, caller, worker, outcome, cell, doneAt, ret,
                   conn, response, servers, past, sandbox>>

\* thread.join(timeout=60) returns
JoinReturns ==
    /\ caller = "joining"
    /\ join_returns(worker, clock)
    /\ caller' = "checking"
    /\ UNCHANGED <<graphVars, other, tool, worker, outcome, cell, clock, doneAt, ret,
                   conn, response, servers, past, sandbox>>

\* if thread.is_alive(): ... if result["error"]: ... return result["value"] or ""
AnswerCaller ==
    /\ caller = "checking"
    /\ caller' = "returned"
    /\ LET r == call_mcp_tool_result(tool, IsAlive(worker), cell)
       IN  ret' = [kind |-> r.kind, value |-> r.value, at |-> clock]
    /\ UNCHANGED <<graphVars, other, tool, worker, outcome, cell, clock, doneAt,
                   conn, response, servers, past, sandbox>>

NextBridge ==
    \/ StartThread
    \/ WorkerConnects
    \/ WorkerReturns
    \/ WorkerRaises
    \/ WorkerCancelled
    \/ WorkerEnds
    \/ Tick
    \/ JoinReturns
    \/ AnswerCaller

SpecBridge == InitBridge /\ [][NextBridge]_vars

(***************************************************************************)
(* The call_mcp_tool invocations of one run, one after the other on the    *)
(* run's thread: code_writer_agent calls query_docs and then write_file,   *)
(* test_writer_agent write_file and then execute_code.  The worker of an   *)
(* invocation that timed out is still there during the later ones.         *)
(***************************************************************************)
\* the tool of the k-th invocation of a run that passes the writer once
ToolOfCall(k) ==
    LET calls == <<"query_docs", "write_file", "write_file", "execute_code">>
    IN  calls[((k - 1) % Len(calls)) + 1]

\* the invocation under way, counting the earlier ones
Latest == Len(past) + 1

InitCalls ==
    /\ state = EmptyDict
    /\ node = "none"
    /\ invoked = <<>>
    /\ decision = "pending"
    /\ loopBacks = 0
    /\ deviated = FALSE
    /\ severities = <<>>
    /\ reviewOutput = NoAnswer
    /\ entry = "stage"
    /\ lastUpdate = EmptyDict
    /\ failure = NoFailure
    /\ result = NoResult
    /\ toolResults = EmptyDict
    /\ toolCalls = <<>>
    /\ other = NoRun
    /\ tool = ToolOfCall(1)
    /\ caller = "idle"
    /\ worker = "unstarted"
    /\ outcome = "none"
    /\ cell = [value |-> None, error |-> None]
    /\ clock = 0
    /\ doneAt = -1
    /\ ret = NoReturn
    /\ conn = 0
    /\ response = NoResponse
    /\ servers = 0
    /\ past = <<>>
    /\ sandbox = NoSandbox

\* call_mcp_tool has returned and the stage calls it again: a new result
\* dict and a new thread; nothing ends the thread of the invocation before
NextCall ==
    /\ caller = "returned"
    /\ Latest < MaxCalls
    /\ past' = Append(past, [tool |-> tool, worker |-> worker, outcome |-> outcome,
                             cell |-> cell, conn |-> conn, response |-> response,
                             ret  |-> ret.value])
    /\ tool' = ToolOfCall(Latest + 1)
    /\ caller' = "idle"
    /\ worker' = "unstarted"
    /\ outcome' = "none"
    /\ cell' = [value |-> None, error |-> None]
    /\ clock' = 0
    /\ doneAt' = -1
    /\ ret' = NoReturn
    /\ conn' = 0
    /\ response' = NoResponse
    /\ UNCHANGED <<graphVars, other, servers, sandbox>>

\* the worker of the earlier invocation i, now p, stores v in its result dict
StoreLeaked(i, p, key, v) ==
    IF result_of(i, Latest) = i
    THEN /\ past' = [past EXCEPT ![i] = [p EXCEPT !.cell = [p.cell EXCEPT ![key] = v]]]
         /\ cell' = cell
    ELSE /\ past' = [past EXCEPT ![i] = p]
         /\ cell' = [cell EXCEPT ![key] = v]

\* run_in_thread going on in the thread of an earlier invocation
LeakedWorker ==
    /\ \E i \in DOMAIN past :
          LET p == past[i]
          IN  \/ /\ p.worker = "running"
                 /\ p.conn = 0
                 /\ past' = [past EXCEPT ![i] = [p EXCEPT !.conn = stdio_client(servers)]]
                 /\ servers' = servers + 1
                 /\ cell' = cell
              \/ /\ p.worker = "running"
                 /\ p.conn # 0
                 /\ \E content \in Contents :
                       StoreLeaked(i,
                           [p EXCEPT !.worker = "closing", !.outcome = "value",
                                     !.response = [kind |-> "content", content |-> content]],
                           "value", _async_call_tool(content))
                 /\ servers' = servers
              \/ /\ p.worker = "running"
                 /\ \E m \in ErrorMessages :
                       StoreLeaked(i,
                           [p EXCEPT !.worker = "closing", !.outcome = "exception",
                                     !.response = [kind |-> "exception", message |-> m]],
                           "error", m)
                 /\ servers' = servers
              \/ /\ p.worker = "running"
                 /\ past' = [past EXCEPT ![i] =
                               [p EXCEPT !.worker = "closing", !.outcome = "base_exception",
                                         !.response = [kind |-> "base_exception"]]]
                 /\ UNCHANGED <<cell, servers>>
              \/ /\ p.worker = "closing"
                 /\ past' = [past EXCEPT ![i] = [p EXCEPT !.worker = "finished"]]
                 /\ UNCHANGED <<cell, servers>>
    /\ UNCHANGED <<graphVars, other, tool, caller, worker, outcome, clock, doneAt, ret,
                   conn, response, sandbox>>

\* the time to the deadline passes with the caller in join: the seconds of
\* one wait are not told apart here, only before the deadline and at it
WaitOut ==
    /\ caller = "joining"
    /\ ~join_returns(worker, clock)
    /\ clock' = JoinTimeout
    /\ UNCHANGED <<graphVars, other, tool, caller, worker, outcome, cell, doneAt, ret,
                   conn, response, servers, past, sandbox>>

NextCalls ==
    \/ StartThread
    \/ WorkerConnects
    \/ WorkerReturns
    \/ WorkerRaises
    \/ WorkerCancelled
    \/ WorkerEnds
    \/ WaitOut
    \/ JoinReturns
    \/ AnswerCaller
    \/ NextCall
    \/ LeakedWorker

SpecCalls == InitCalls /\ [][NextCalls]_vars

(***************************************************************************)
(* test_writer_agent's execute_code call from end to end: call_mcp_tool,   *)
(* the handler's docker run under its own time limit (mcp_server/server.py *)
(* lines 154-199), the answer on its way back to the worker, and the tag   *)
(* test_writer_agent derives from what call_mcp_tool handed back.          *)
(***************************************************************************)
\* subprocess.run(..., timeout=30)
SandboxLimit == 30

\* seconds between two observations of the clock
TimeStep == 10

InitExec ==
    /\ state = SampleState
    /\ node = "test_writer"
    /\ invoked = <<"orchestrator", "code_writer", "code_reviewer">>
    /\ decision = "approve"
    /\ loopBacks = 0
    /\ deviated = FALSE
    /\ severities = <<"none">>
    /\ reviewOutput = NoAnswer
    /\ entry = "api"
    /\ lastUpdate = EmptyDict
    /\ failure = NoFailure
    /\ result = NoResult
    /\ toolResults = EmptyDict
    /\ toolCalls = test_writer_requests(SampleState, [text |-> "tests"])
    /\ other = NoRun
    /\ tool = "execute_code"
    /\ caller = "idle"
    /\ worker = "unstarted"
    /\ outcome = "none"
    /\ cell = [value |-> None, error |-> None]
    /\ clock = 0
    /\ doneAt = -1
    /\ ret = NoReturn
    /\ conn = 0
    /\ response = NoResponse
    /\ servers = 0
    /\ past = <<>>
    /\ sandbox = NoSandbox

SandboxEnded == sandbox.status \in {"exited", "killed", "failed"}

\* the handler has the request and calls subprocess.run: docker run starts
SandboxStarts ==
    /\ worker = "running"
    /\ conn # 0
    /\ sandbox = NoSandbox
    /\ sandbox' = [status |-> "running", since |-> clock]
    /\ UNCHANGED <<graphVars, other, tool, caller, worker, outcome, cell, clock, doneAt, ret,
                   conn, response, servers, past>>

\* docker cannot be run (FileNotFoundError) or subprocess.run raises otherwise
SandboxFails ==
    /\ worker = "running"
    /\ conn # 0
    /\ sandbox = NoSandbox
    /\ \E t \in ExecErrorTexts :
          sandbox' = [status |-> "failed", since |-> clock, at |-> clock, text |-> t]
    /\ UNCHANGED <<graphVars, other, tool, caller, worker, outcome, cell, clock, doneAt, ret,
                   conn, response, servers, past>>

\* the process ends within the limit: "Exit code: N ... OUTPUT ... ERRORS ..."
SandboxExits ==
    /\ sandbox.status = "running"
    /\ clock < sandbox.since + SandboxLimit
    /\ \E t \in {"Exit code: 0", "Exit code: 1"} :
          sandbox' = [status |-> "exited", since |-> sandbox.since, at |-> clock, text |-> t]
    /\ UNCHANGED <<graphVars, other, tool, caller, worker, outcome, cell, clock, doneAt, ret,
                   conn, response, servers, past>>

\* the process is still running at the limit: subprocess.run kills it and
\* raises TimeoutExpired, which the handler answers with a text
SandboxKilled ==
    /\ sandbox.status = "running"
    /\ clock >= sandbox.since + SandboxLimit
    /\ sandbox' = [status |-> "killed", since |-> sandbox.since, at |-> clock,
                   text |-> "Error: 30-second limit"]
    /\ UNCHANGED <<graphVars, other, tool, caller, worker, outcome, cell, clock, doneAt, ret,
                   conn, response, servers, past>>

\* the handler's answer reaches the worker: _async_call_tool returns its text
ExecAnswered ==
    /\ worker = "running"
    /\ SandboxEnded
    /\ LET r == TextContent(sandbox.text)
       IN  /\ response' = r
           /\ cell' = [cell EXCEPT !.value = _async_call_tool(r.content)]
    /\ outcome' = "value"
    /\ worker' = "closing"
    /\ UNCHANGED <<graphVars, other, tool, caller, clock, doneAt, ret, conn, servers, past,
                   sandbox>>

\* time passes, observed every TimeStep seconds (both limits are multiples
\* of it), while the caller is in join or the worker it left behind is
\* alive; the limit of a running sandbox is not overrun
TickExec ==
    /\ clock < JoinTimeout + MaxOverrun
    /\ IsAlive(worker)
    /\ \/ caller = "joining" /\ ~join_returns(worker, clock)
       \/ caller = "returned"
    /\ sandbox.status = "running" => clock < sandbox.since + SandboxLimit
    /\ clock' = clock + TimeStep
    /\ UNCHANGED <<graphVars, other, tool, caller, worker, outcome, cell, doneAt, ret,
                   conn, response, servers, past, sandbox>>

\* call_mcp_tool has returned into test_writer_agent, which derives the tag
\* and returns its update
TestWriterAfterExec ==
    /\ caller = "returned"
    /\ node = "test_writer"
    /\ RunNode("test_writer",
               test_writer_agent(state, [text |-> "tests"],
                                 [kind |-> ret.kind, value |-> ret.value]),
               StaticEdge("test_writer"))
    /\ toolResults' = [execute_code |-> ret.value]
    /\ UNCHANGED <<decision, loopBacks, deviated, severities, reviewOutput, entry, failure,
                   toolCalls, bridgeVars, other>>

NextExec ==
    \/ StartThread
    \/ WorkerConnects
    \/ SandboxStarts
    \/ SandboxFails
    \/ SandboxExits
    \/ SandboxKilled
    \/ ExecAnswered
    \/ WorkerRaises
    \/ WorkerCancelled
    \/ WorkerEnds
    \/ TickExec
    \/ JoinReturns
    \/ AnswerCaller
    \/ TestWriterAfterExec

SpecExec == InitExec /\ [][NextExec]_vars

(***************************************************************************)
(* Properties of the stage graph.                                          *)
(***************************************************************************)
Writers   == Count(invoked, "code_writer")
Reviewers == Count(invoked, "code_reviewer")
Testers   == Count(invoked, "test_writer")

Completed == node = "END"

\* the severity and iteration count a state presents to the routing function
SeverityTag(s) ==
    IF Has(s, "review_json") /\ Has(s["review_json"], "severity")
    THEN s["review_json"]["severity"] ELSE "absent"

IterationCount(s) == IF Has(s, "iterations") THEN s["iterations"] ELSE 0

\* C1: a run in which every stage invocation returns reaches END: the
\* writer/reviewer loop does not continue forever.
C1_Termination == ([](node # "ERROR")) => <>(node = "END")

C1_Witness == Completed /\ loopBacks = 2 /\ Testers = 1

\* C2: the loop-back edge code_reviewer -> code_writer is taken at most
\* maxRevisions times in one run.
C2_LoopBackBounded == loopBacks <= maxRevisions

C2_Witness == Completed /\ loopBacks = 2 /\ Reviewers = 3

\* C4: in every reachable state 0 <= iterations <= maxRevisions + 1.
C4_IterationsInRange ==
    /\ Has(state, "iterations")
    /\ state["iterations"] \in 0..(maxRevisions + 1)

C4_Witness == state["iterations"] = 3 /\ node = "code_reviewer"

\* C7: the code_reviewer stage is invoked at most maxRevisions times in one run.
C7_ReviewerBounded == Reviewers <= maxRevisions

C7_Witness == Reviewers = 3 /\ Completed

\* C5 (SpecRoute): route_after_review returns exactly one of revise/approve for
\* every state, and revise exactly when severity is critical and iterations
\* (0 when absent) is below 3.
C5_RouteTotalExact ==
    decision # "pending" =>
        /\ decision \in Labels
        /\ (decision = "revise") <=>
              (SeverityTag(state) = "critical" /\ IterationCount(state) < 3)

C5_Witness ==
    /\ decision = "revise"
    /\ ~Has(state, "iterations")
    /\ SeverityTag(state) = "critical"

\* C6 (SpecRoute): a severity outside {none, minor, critical}, a missing one
\* included, is routed like none: approve, whatever the iteration count.
C6_UnknownSeverityApproves ==
    (decision # "pending" /\ SeverityTag(state) \notin SeverityTags)
        => decision = "approve"

C6_Witness ==
    /\ decision = "approve"
    /\ SeverityTag(state) = "CRITICAL"
    /\ IterationCount(state) = 0

\* C3 as stated: the engine itself keeps the loop-back edge to maxRevisions
\* firings (hence the writer to maxRevisions + 1 invocations), whatever
\* label the predicate on the conditional edge returns.
C3_EngineEnforcesBound ==
    /\ loopBacks <= maxRevisions
    /\ Writers <= maxRevisions + 1

\* C3 amended (SpecAnyPredicate): the engine follows the label it is given
\* (revise -> code_writer, approve -> test_writer, one loop-back per revise)
\* and, as long as every label followed is the one route_after_review
\* returns, the loop-back edge has fired at most maxRevisions times and the
\* run is over within 2 * maxRevisions + 2 stage invocations.
C3_BoundIsThePredicates ==
    /\ [](~deviated => /\ loopBacks <= maxRevisions
                       /\ Len(invoked) <= 2 * maxRevisions + 2
                       /\ (Len(invoked) = 2 * maxRevisions + 2 => node \in {"END", "ERROR"}))
    /\ [][Len(invoked') > Len(invoked) /\ node = "code_reviewer" /\ node' # "ERROR"
            => /\ decision' \in Labels
               /\ (node' = "code_writer") <=> (decision' = "revise")
               /\ (node' = "test_writer") <=> (decision' = "approve")
               /\ loopBacks' = loopBacks + (IF decision' = "revise" THEN 1 ELSE 0)]_vars

C3_Witness ==
    /\ deviated
    /\ decision = "revise"
    /\ loopBacks = maxRevisions + 1

\* the reviews of the run so far are the first reviews of the given script
FollowsScript(script) ==
    /\ Len(severities) <= Len(script)
    /\ \A i \in 1..Len(severities) : severities[i] = script[i]

AllCritical == \A i \in 1..Len(severities) : severities[i] = "critical"

\* C8 (Scenario B): with critical at every review the writer is invoked 4
\* times, then the iteration count forces approve, the tester runs exactly
\* once and the run completes.
C8_ScenarioB ==
    (Completed /\ AllCritical)
        => /\ Writers = maxRevisions + 1
           /\ Testers = 1
           /\ decision = "approve"

\* C9 (Scenario A): reviews critical, critical, none: writer 3 times, reviewer
\* 3 times, tester once, final severity none.
C9_ScenarioA ==
    (Completed /\ FollowsScript(<<"critical", "critical", "none">>))
        => /\ Writers = 3
           /\ Reviewers = 3
           /\ Testers = 1
           /\ SeverityTag(state) = "none"

C9_Witness ==
    /\ Completed
    /\ severities = <<"critical", "critical", "none">>
    /\ state["iterations"] = 3

\* C10 (Scenario D): first review none: writer, reviewer and tester once
\* each, and the run completes with iterations = 1.
C10_ScenarioD ==
    (Completed /\ Len(severities) >= 1 /\ severities[1] = "none")
        => /\ Writers = 1
           /\ Reviewers = 1
           /\ Testers = 1
           /\ state["iterations"] = 1

C10_Witness ==
    /\ Completed
    /\ severities = <<"none">>
    /\ Len(state["messages"]) = 4

(***************************************************************************)
(* Properties of the messages log, of iterations and of the order of the   *)
(* stages.                                                                 *)
(***************************************************************************)
Messages == Get(state, "messages", <<>>)

\* stage invocations that returned (the one that raised, if any, did not)
Returned == Len(invoked) - (IF failure # NoFailure THEN 1 ELSE 0)

ReturnedWriters == Writers - (IF failure.stage = "code_writer" THEN 1 ELSE 0)

IsPrefix(a, b) == Len(a) <= Len(b) /\ \A i \in 1..Len(a) : a[i] = b[i]

LastInvoked == IF Len(invoked) = 0 THEN "none" ELSE invoked[Len(invoked)]

\* C11: the length of the messages log is the number of stage invocations
\* completed so far, and the log only grows at its end: the log before a
\* step is a prefix of the log after it.
C11_LogCountsInvocations ==
    /\ [](Len(Messages) = Returned)
    /\ [][IsPrefix(Messages, Messages')]_vars

C11_Witness == Completed /\ Len(Messages) = 8 /\ Reviewers = 3

\* C12: the i-th log entry carries the name of the i-th stage invoked, one
\* entry for each invocation that returned.
C12_LogFollowsExecutionOrder ==
    \A i \in 1..Returned :
        /\ i \in DOMAIN Messages
        /\ Messages[i]["role"] = invoked[i]

C12_Witness ==
    /\ Completed
    /\ Len(Messages) = 6
    /\ Messages[4]["role"] = "code_writer"
    /\ Messages[6]["role"] = "test_writer"

\* C13: iterations never decreases, grows by exactly 1 at each code_writer
\* invocation that returns and at no other step, so it always equals the
\* number of code_writer invocations completed, also in the final state
\* handed to the caller.
C13_IterationsCountWriters ==
    /\ [](/\ state["iterations"] = ReturnedWriters
          /\ (result["kind"] = "RunResponse" => result["iterations"] = Writers)
          /\ (result["kind"] = "state" => result["state"]["iterations"] = Writers))
    /\ [][/\ state'["iterations"] >= state["iterations"]
          /\ (state'["iterations"] # state["iterations"])
                => state'["iterations"] = state["iterations"] + 1
          /\ (state'["iterations"] = state["iterations"] + 1)
                <=> (/\ invoked' = Append(invoked, "code_writer")
                     /\ failure' = NoFailure)]_vars

C13_Witness ==
    /\ Completed
    /\ Writers = 2
    /\ result["kind"] = "RunResponse"
    /\ result["iterations"] = 2

\* C14: a stage is invoked with the state that results from merging the
\* update of the stage invoked just before it: every key of that update
\* (messages aside, which is appended) has the update's value; the reviewer
\* is handed the code of the writer invocation just before it, and a writer
\* after the first is handed the review of the reviewer invocation just
\* before it.
C14_NoStaleState ==
    (node # "ERROR" /\ Len(invoked) > 0) =>
        /\ \A k \in (DOMAIN lastUpdate) \ {"messages"} :
              Has(state, k) /\ state[k] = lastUpdate[k]
        /\ node = "code_reviewer" =>
              /\ LastInvoked = "code_writer"
              /\ state["code"] = lastUpdate["code"]
              /\ state["code"] = Writers
        /\ (node = "code_writer" /\ Reviewers > 0) =>
              /\ LastInvoked = "code_reviewer"
              /\ state["review"] = lastUpdate["review"]
              /\ state["review_json"] = lastUpdate["review_json"]

C14_Witness ==
    /\ node = "code_reviewer"
    /\ Writers = 2
    /\ state["code"] = 2
    /\ state["review_json"]["severity"] = "critical"

\* C15: a completed run invoked orchestrator once and first, code_reviewer
\* right after every code_writer, code_writer or test_writer right after
\* every code_reviewer, and test_writer once and last.
C15_StageOrder ==
    Completed =>
        /\ invoked[1] = "orchestrator"
        /\ Count(invoked, "orchestrator") = 1
        /\ Testers = 1
        /\ LastInvoked = "test_writer"
        /\ \A i \in 1..(Len(invoked) - 1) :
              /\ invoked[i] = "orchestrator" => invoked[i + 1] = "code_writer"
              /\ invoked[i] = "code_writer" => invoked[i + 1] = "code_reviewer"
              /\ invoked[i] = "code_reviewer"
                    => invoked[i + 1] \in {"code_writer", "test_writer"}

C15_Witness ==
    /\ Completed
    /\ invoked = <<"orchestrator", "code_writer", "code_reviewer",
                   "code_writer", "code_reviewer", "test_writer">>

\* C16: once a stage has raised, the run is over: no stage is invoked any
\* more (neither the one that raised nor a later one) and the caller holds
\* an error; a state is handed to the caller only by a run that completed
\* without a failure.
C16_FailureAbortsRun ==
    /\ [](failure # NoFailure =>
            /\ node = "ERROR"
            /\ LastInvoked = failure.stage
            /\ result["kind"] \in {"HTTPException", "exception"})
    /\ [](result["kind"] \in {"RunResponse", "state"} =>
            Completed /\ failure = NoFailure)
    /\ [][failure # NoFailure => (invoked' = invoked /\ result' = result)]_vars

C16_Witness ==
    /\ failure.stage = "code_reviewer"
    /\ Reviewers = 2
    /\ node = "ERROR"
    /\ result["kind"] = "HTTPException"

HasReturned == caller = "returned"

\* the worker thread had ended when the caller looked at it, before the deadline
WorkerEndedInTime == HasReturned /\ doneAt >= 0 /\ doneAt <= ret.at /\ doneAt < JoinTimeout

\* C18: whatever the worker did (returned, raised, still running at the
\* deadline), call_mcp_tool hands its caller a string and raises nothing.
C18_AlwaysReturnsString ==
    HasReturned =>
        /\ ret.kind = "return"
        /\ IsString(ret.value)
        /\ (outcome = "none" /\ IsAlive(worker)) => ret.value = TimeoutString(tool)

C18_Witness ==
    /\ HasReturned
    /\ outcome = "exception"
    /\ cell.error = "Connection closed"
    /\ ret.value = ErrorString(tool, "Connection closed")
    /\ tool = "no_such_tool"

\* C19: the caller is back as soon as the worker thread has ended or 60
\* seconds have passed, whichever is first, and is never still waiting
\* after the deadline, however long the worker goes on.
C19_ReturnsByDeadline ==
    /\ (clock > JoinTimeout => HasReturned)
    /\ HasReturned =>
          ret.at = (IF doneAt >= 0 /\ doneAt <= JoinTimeout THEN doneAt ELSE JoinTimeout)

C19_Witness ==
    /\ HasReturned
    /\ ret.at = JoinTimeout
    /\ worker = "running"
    /\ clock = JoinTimeout + MaxOverrun

\* C20: when the worker ended before the deadline by raising, the string
\* handed back is the error string naming the tool, whatever the text of
\* the exception, the empty text included.
C20_RaisedErrorIsReported ==
    (WorkerEndedInTime /\ outcome = "exception") =>
        /\ Has(ret.value, "tool")
        /\ ret.value.tool = tool
        /\ ret.value.text = "Error calling MCP tool"
        /\ ret.value # Str("")

(***************************************************************************)
(* Properties of the call_mcp_tool invocations of one run (SpecCalls).     *)
(***************************************************************************)
\* the text of the first content item of a response, "" when it has none
FirstText(r) ==
    IF r.kind = "content" /\ r.content # <<>> THEN Head(r.content) ELSE ""

\* the connections the invocations of the run hold or held
Connections == ({past[i].conn : i \in DOMAIN past} \cup {conn}) \ {0}

Connected == Cardinality({i \in DOMAIN past : past[i].conn # 0}) + (IF conn # 0 THEN 1 ELSE 0)

\* C21: when the worker ended before the deadline with a response, the
\* string handed back is the text of the first content item of that
\* response ("" for a response without content); a response is only got
\* over a connection, every invocation that connected did so to a tool
\* server started for it, and no two invocations have the same connection.
C21_ReturnsFirstContentText ==
    /\ (WorkerEndedInTime /\ outcome = "value") =>
          /\ ret.kind = "return"
          /\ ret.value = Str(FirstText(response))
    /\ outcome = "value" => conn # 0
    /\ \A i \in DOMAIN past : past[i].outcome = "value" => past[i].conn # 0
    /\ Cardinality(Connections) = Connected
    /\ Connected = servers

C21_Witness ==
    /\ Latest = 2
    /\ past[1].conn = 1
    /\ past[1].ret = Str("")
    /\ conn = 2
    /\ WorkerEndedInTime
    /\ response = [kind |-> "content", content |-> <<"tool result text", "second item">>]
    /\ ret.value = Str("tool result text")

\* the result dict as the invocation's own worker leaves it
OwnCell(r) ==
    [value |-> IF r.kind = "content" THEN FirstText(r) ELSE None,
     error |-> IF r.kind = "exception" THEN r.message ELSE None]

\* C22: an invocation that finds its worker alive after the join hands back
\* the timeout string naming its tool and leaves the worker as it is; a
\* string handed back never changes afterwards, whatever the worker left
\* behind does; and every result dict holds only what the worker of its own
\* invocation stored, so that what a later invocation hands back is decided
\* by its own worker alone.
C22_LeakedWorkerIsHarmless ==
    /\ [][(caller = "checking" /\ caller' = "returned" /\ IsAlive(worker))
            => /\ ret'.kind = "return"
               /\ ret'.value = TimeoutString(tool)
               /\ Has(ret'.value, "tool") /\ ret'.value.tool = tool
               /\ worker' = worker]_vars
    /\ [][(caller = "returned" /\ caller' = "returned") => ret' = ret]_vars
    /\ [][\A i \in DOMAIN past :
             /\ i \in DOMAIN past'
             /\ past'[i].ret = past[i].ret]_vars
    /\ [](/\ cell = OwnCell(response)
          /\ \A i \in DOMAIN past : past[i].cell = OwnCell(past[i].response))
    /\ [][(caller = "checking" /\ caller' = "returned" /\ ~IsAlive(worker))
            => ret'.value \in {ErrorString(tool, OwnCell(response).error),
                               Str(FirstText(response))}]_vars

C22_Witness ==
    /\ Latest = 2
    /\ past[1].ret = TimeoutString("query_docs")
    /\ past[1].worker = "finished"
    /\ past[1].outcome = "exception"
    /\ past[1].cell.error = "Connection closed"
    /\ caller = "returned"
    /\ outcome = "value"
    /\ ret.value = Str("tool result text")

\* tool calls of the run that a worker is still executing
Outstanding ==
    Cardinality({i \in DOMAIN past : past[i].worker \in {"running", "closing"}})
        + (IF worker \in {"running", "closing"} THEN 1 ELSE 0)

\* C23: at most one tool call of the run has a worker still executing it,
\* also after an earlier invocation timed out.
C23_OneOutstandingCall == Outstanding <= 1

(***************************************************************************)
(* Properties of the tool calls made inside the stages.                    *)
(***************************************************************************)
\* the strings call_mcp_tool builds for a call of tool_name that failed
FailureStrings(tool_name) ==
    {TimeoutString(tool_name)} \cup {ErrorString(tool_name, m) : m \in ErrorMessages}

RECURSIVE PathFrom(_, _)
\* the stages invoked from the i-th review on when the reviews carry the
\* severities sevs (the i-th review is made with iterations = i)
PathFrom(sevs, i) ==
    IF i > Len(sevs) THEN <<>>
    ELSE IF sevs[i] = "critical" /\ i < maxRevisions
    THEN <<"code_reviewer", "code_writer">> \o PathFrom(sevs, i + 1)
    ELSE <<"code_reviewer", "test_writer">>

\* the stages of a run as its reviews alone decide them
ExpectedStages(sevs) == <<"orchestrator", "code_writer">> \o PathFrom(sevs, 1)

\* C24: whatever call_mcp_tool hands back to code_writer and test_writer
\* (a text, the error string, the timeout string), the stage returns and
\* the edge after it is followed: a run is only ever aborted by an inference
\* error or by the reviewer's own exception, and the stages invoked are the
\* ones the reviews of the run decide, up to test_writer and the end.
C24_ToolFailuresNeverAbort ==
    /\ [](failure # NoFailure => failure.cause \in {InferenceError, AttributeError})
    /\ [](failure = NoFailure =>
            /\ IsPrefix(invoked, ExpectedStages(severities))
            /\ Completed => invoked = ExpectedStages(severities))
    /\ [][(Len(invoked') > Len(invoked) /\ node \in {"code_writer", "test_writer"}
             /\ failure' = NoFailure)
            => /\ node' = StaticEdge(node)
               /\ DOMAIN toolResults' =
                     (IF node = "code_writer" THEN {"query_docs"} ELSE {"execute_code"})
               /\ \A t \in DOMAIN toolResults' : IsString(toolResults'[t])]_vars

C24_Witness ==
    /\ Completed
    /\ Writers = 2
    /\ toolResults = [execute_code |-> ErrorString("execute_code", "Connection closed")]
    /\ state["test_results"].text = ErrorString("execute_code", "Connection closed")

C26_WriterLogsFailedToolStep ==
    (LastInvoked = "code_writer" /\ failure = NoFailure
        /\ toolResults["query_docs"] \in FailureStrings("query_docs"))
        => Messages[Len(Messages)]["content"].rag # "RAG context retrieved successfully"

(***************************************************************************)
(* Properties of the review held in the state and of the merge.            *)
(***************************************************************************)
\* a review has been made and merged into the state
AfterAReview == Len(severities) > 0 /\ Has(state, "review_json")

Reviewed_last == LastInvoked = "code_reviewer" /\ failure = NoFailure

\* a log entry that remarks on the severity tag, apart from the reviewer's
\* "Review done" entry that every review appends
IsAmbiguityNote(e) ==
    \/ Has(e["content"], "note")
    \/ e["role"] \notin Stages

C28_NoIssuesMeansNone ==
    (AfterAReview /\ Has(state["review_json"], "issues")
        /\ Len(state["review_json"]["issues"]) = 0)
        => SeverityTag(state) = "none"

\* C29: after a review, review_json holds a severity and it is one of none,
\* minor, critical, whatever the reviewer's inference call answered.
C29_SeverityInRange ==
    AfterAReview => SeverityTag(state) \in SeverityTags

\* C30: the merge of the update of a stage that returned appends the
\* update's messages to the log, gives every other key of the update the
\* update's value and leaves the keys the update lacks as they were (absent
\* ones absent); code_writer's update has the keys code, iterations and
\* messages, so every other key keeps its value over a writer step.
C30_MergeFrame ==
    [][(Len(invoked') > Len(invoked) /\ failure' = NoFailure) =>
          /\ Has(lastUpdate', "messages")
          /\ Get(state', "messages", <<>>)
                = Get(state, "messages", <<>>) \o lastUpdate'["messages"]
          /\ \A k \in (DOMAIN lastUpdate') \ {"messages"} :
                Has(state', k) /\ state'[k] = lastUpdate'[k]
          /\ \A k \in AgentState \ (DOMAIN lastUpdate') :
                /\ Has(state', k) <=> Has(state, k)
                /\ Has(state, k) => state'[k] = state[k]
          /\ node = "code_writer" =>
                /\ DOMAIN lastUpdate' = {"code", "iterations", "messages"}
                /\ \A k \in (DOMAIN state) \ {"code", "iterations", "messages"} :
                      Has(state', k) /\ state'[k] = state[k]]_vars

C30_Witness ==
    /\ node = "code_reviewer"
    /\ Writers = 2
    /\ DOMAIN lastUpdate = {"code", "iterations", "messages"}
    /\ state["task"] = "enriched task"
    /\ state["review_json"]["severity"] = "critical"
    /\ Len(Get(state["review_json"], "issues", <<>>)) = 1
    /\ Len(Messages) = 4

(***************************************************************************)
(* Properties of the entry points of a run (SpecEntry).                    *)
(***************************************************************************)
\* C31: a run started with an empty or whitespace-only task is rejected
\* before the engine is entered, whichever entry point it came through: the
\* step that takes the task answers the caller with a failure and no stage
\* is invoked.
C31_EmptyTaskRejected ==
    [][(node = "START" /\ strip(state["task"]) = "")
          => /\ node' = "REJECTED"
             /\ invoked' = <<>>
             /\ result' # NoResult
             /\ result'.kind \in {"HTTPException", "exception"}]_vars

(***************************************************************************)
(* Properties of the tool server's handler (SpecTools).                    *)
(***************************************************************************)
\* the request came from a stage and the handler has run on it
StageRequestHandled == entry \in Stages /\ response # NoResponse

\* C33: every tool request a stage issues (code_writer's query_docs and
\* write_file, test_writer's write_file and execute_code) names a tool the
\* server has a branch for and carries the keys that branch reads: the
\* handler answers with a text other than the unknown-tool one and does
\* not fail on a missing key.
C33_StageToolCallsAreServed ==
    StageRequestHandled
        => /\ response.kind = "content"
           /\ response.content[1] # UnknownTool

(***************************************************************************)
(* Properties of the reviews the inference service can answer with, of the *)
(* tags of test_writer and of the code that reaches it.                    *)
(***************************************************************************)
\* the review made last completed on an answer that holds a JSON object with
\* a severity outside {none, minor, critical}
OddSeverityReviewed ==
    /\ Reviewed_last
    /\ reviewOutput.json
    /\ Has(reviewOutput.obj, "severity")
    /\ reviewOutput.obj["severity"] \notin SeverityTags

\* C34: a review whose severity is outside {none, minor, critical}, a value
\* that is not a string included, does not abort the run: the reviewer
\* raises only when its inference call fails, and after such a review
\* routing has decided approve and test_writer is next.
C34_OddSeverityNeverAborts ==
    /\ failure.stage = "code_reviewer" => failure.cause = InferenceError
    /\ OddSeverityReviewed => decision = "approve" /\ node = "test_writer"

\* the review made last completed on an answer without a JSON object
UnparseableReviewed == Reviewed_last /\ ~reviewOutput.json

\* C35 as stated: after a review whose answer holds no JSON object,
\* review_json is {issues: [], severity: none, summary: the first 300
\* characters of the answer}, routing has decided approve and test_writer
\* is next.
C35_UnparseableIsFirst300 ==
    UnparseableReviewed
        => /\ state["review_json"] = [issues   |-> <<>>,
                                      severity |-> "none",
                                      summary  |-> "first 300 characters"]
           /\ decision = "approve"
           /\ node = "test_writer"

\* C35 amended: after a review whose answer holds no JSON object,
\* review_json is {issues: [], severity: none, summary}, where summary is
\* the first 300 characters of the answer, or the fixed text "Review could
\* not be parsed" when the answer is the empty string; routing has decided
\* approve whatever the iteration count and test_writer is next.
C35_UnparseableApproves ==
    UnparseableReviewed
        => /\ state["review_json"] =
                 [issues   |-> <<>>,
                  severity |-> "none",
                  summary  |-> IF reviewOutput.text = ""
                               THEN "Review could not be parsed"
                               ELSE "first 300 characters"]
           /\ decision = "approve"
           /\ node = "test_writer"
           /\ state["iterations"] \in 1..maxRevisions

C35_Witness ==
    /\ UnparseableReviewed
    /\ reviewOutput.text = ""
    /\ state["review_json"]["summary"] = "Review could not be parsed"
    /\ state["iterations"] = 2
    /\ node = "test_writer"

\* test_writer returned and the run is complete
Tested == LastInvoked = "test_writer" /\ failure = NoFailure

\* C36: test_writer derives one tag from what execute_code handed back:
\* TESTS PASSED for an output with "Exit code: 0" in it, although that
\* output contains "error" as well (its ERRORS section); otherwise TESTS
\* FAILED for an output with "error" in it (a non-zero exit code, the
\* server's error texts, the bridge's timeout and error strings); otherwise
\* none, and test_results is then the output as it came.
C36_TagPrecedence ==
    Tested =>
        LET out == toolResults["execute_code"]
            res == state["test_results"]
        IN  /\ res.text = out
            /\ res.tag \in {"TESTS PASSED", "TESTS FAILED", ""}
            /\ out.text = "Exit code: 0" =>
                  /\ InLower("error", out.text)
                  /\ res.tag = "TESTS PASSED"
            /\ (out.text \in {"Exit code: 1", "Error: 30-second limit"}
                   \/ out \in FailureStrings("execute_code"))
                  => res.tag = "TESTS FAILED"
            /\ out.text = "" => res.tag = ""

C36_Witness ==
    /\ Tested
    /\ toolResults["execute_code"] = Str("Exit code: 0")
    /\ HasErrorOrFailed(toolResults["execute_code"])
    /\ state["test_results"].tag = "TESTS PASSED"

\* C38: test_writer is only invoked when the latest review's severity is not
\* critical or iterations has reached 3: code whose latest review is
\* critical reaches the tester only through the approve forced at the
\* bound (and a completed run can then hold a critical review).
C38_CriticalOnlyAtBound ==
    (node = "test_writer" \/ LastInvoked = "test_writer")
        => \/ SeverityTag(state) # "critical"
           \/ IterationCount(state) >= maxRevisions

C38_Witness ==
    /\ Completed
    /\ SeverityTag(state) = "critical"
    /\ state["iterations"] = 3
    /\ result # NoResult

\* a stage invocation that returned
StageReturns(n) == node = n /\ Len(invoked') > Len(invoked) /\ failure' = NoFailure

\* C39: the code test_writer puts into its requests, and the code of the
\* final state, is the output of the last code_writer invocation, and the
\* last code_reviewer invocation was made on that code: the reviewer is
\* handed the last writer's code and leaves it as it is, test_writer is
\* invoked right after a review, with no writer in between.
C39_TestedCodeIsReviewedCode ==
    /\ [](Tested =>
            /\ state["code"] = Writers
            /\ toolCalls[1].arguments["content"].code = Writers
            /\ toolCalls[2].arguments["code"].code = Writers
            /\ invoked[Len(invoked) - 1] = "code_reviewer"
            /\ invoked[Len(invoked) - 2] = "code_writer")
    /\ [][StageReturns("code_reviewer")
            => /\ LastInvoked = "code_writer"
               /\ state["code"] = Writers
               /\ state'["code"] = state["code"]]_vars
    /\ [][StageReturns("test_writer")
            => /\ LastInvoked = "code_reviewer"
               /\ state["code"] = Writers
               /\ state'["code"] = state["code"]]_vars

C39_Witness ==
    /\ Tested
    /\ Writers = 2
    /\ state["code"] = 2
    /\ toolCalls[2].arguments["code"].code = 2

(***************************************************************************)
(* Properties of an execute_code call from end to end (SpecExec).          *)
(***************************************************************************)
LimitText == "Error: 30-second limit"

Killed == sandbox.status = "killed"

OwnState(r) ==
    LET returned == Len(r.invoked) - (IF r.failure # NoFailure THEN 1 ELSE 0)
        writers  == Count(r.invoked, "code_writer")
                       - (IF r.failure.stage = "code_writer" THEN 1 ELSE 0)
        log      == Get(r.state, "messages", <<>>)
        reviews  == Len(r.severities)
    IN  /\ Len(log) = returned
        /\ \A i \in 1..returned : log[i]["role"] = r.invoked[i]
        /\ Get(r.state, "iterations", 0) = writers
        /\ writers > 0 => r.state["code"] = writers
        /\ reviews > 0 =>
              /\ Get(r.state["review_json"], "severity", "absent") = r.severities[reviews]
              /\ r.decision = (IF r.severities[reviews] = "critical" /\ reviews < maxRevisions
                               THEN "revise" ELSE "approve")
        /\ reviews = 0 => r.decision = "pending"

\* C32: with two runs going on in one process, in every interleaving of
\* their stage invocations each run's state is made by its own stages alone;
\* a stage invocation of one run leaves the other run as it was, and a run
\* whose thread goes on finds its state as its last stage left it.
C32_RunsOwnTheirState ==
    /\ [](OwnState(ThisRun(Running)) /\ OwnState(other))
    /\ [][other'.id = other.id => other' = other]_vars
    /\ [][other'.id # other.id
            => /\ other' = ThisRun(Running)
               /\ ThisRun(Running)' = other]_vars

C32_Witness ==
    /\ Running = 1
    /\ node = "code_reviewer"
    /\ Writers = 2
    /\ state["code"] = 2
    /\ severities = <<"critical">>
    /\ other.node = "test_writer"
    /\ other.state["iterations"] = 1
    /\ other.state["code"] = 1
    /\ other.severities = <<"minor">>
    /\ other.decision = "approve"
    /\ Len(Messages) = 4
    /\ Len(other.state["messages"]) = 3

====
